---- MODULE Spec2Model ----
(***************************************************************************)
(* AsyncRefreshingTokenSource (refresh.go): a token cache guarded by a     *)
(* mutex, filled by a synchronous first fetch in                           *)
(* NewAsyncRefreshingTokenSource, refreshed by the goroutine run() and     *)
(* read (and lazily regenerated) by Token().                               *)
(*                                                                         *)
(* Time is discrete and relative: every timer and every expiry is kept as  *)
(* the number of time units left, and Tick lets one unit pass.  One unit   *)
(* is fifteen minutes, so that defaultInterval (30 minutes) is 2; the ten  *)
(* seconds oauth2 subtracts from an expiry are below one unit.             *)
(***************************************************************************)
EXTENDS Integers, FiniteSets, Sequences, TLC

\* ---------------------------------------------------------------- bounds
MaxTokens == 3      \* tokens the generator can issue in one behaviour
RetryBudget == 1    \* retries after which a bounded BackOff returns Stop
NumReaders == 2     \* goroutines calling Token()
ClockCap == 4       \* time units over which the timing scenario is followed

\* ------------------------------------------------------------- constants
defaultInterval == 2

Readers == 1..NumReaders
CallCap == RetryBudget + 2   \* attemptCalls saturates here

None == "none"               \* the nil error
GenErr == "genErr"           \* an error returned by genFunc
FetchErr == "fetchErr"       \* an error returned by tokenSource.Token()

NoExpiry == -1               \* Expiry.IsZero()
NilC == -1                   \* a nil channel
Free == 0                    \* mu unlocked
Sched == NumReaders + 1      \* mu held by flip
NoClock == -1                \* the behaviour is not in the timing scenario

Nil == [id |-> 0, ttl |-> NoExpiry]          \* (*oauth2.Token)(nil)

\* inputs
Lifetimes == {NoExpiry, 1, 2}                \* Expiry of a fresh token
Confs ==
  { c \in [ MarginBeforeExpiry : {0, 1},
            RandomizationFactorForMarginBeforeExpiry : {0, 100},
            RefreshInterval : {0, 2},
            RandomizationFactorForRefreshInterval : {0, 50},
            Backoff : {"nil", "unbounded"},
            IsRetryable : {"nil", "never", "always"} ] :
      c.MarginBeforeExpiry = 0 => c.RandomizationFactorForMarginBeforeExpiry = 0 }

VARIABLES
  conf,         \* ts.conf
  token,        \* ts.token
  mu,           \* ts.mu: Free, Sched or the reader holding it
  cancelled,    \* ctx.Done() is closed
  pc,           \* position of the constructing goroutine, then of run()
  phase,        \* "ctor": flip called by New; "bg": flip called by run
  flipTok,      \* flip's local token
  flipErr,      \* the error backoff.Retry returned to flip
  lastOpErr,    \* the error of the last call of the retried operation
  retries,      \* retries granted by conf.Backoff since its Reset (saturating)
  attemptCalls, \* genFunc calls of the current flip (saturating)
  nextId,       \* number of the next token the generator issues
  tickLeft,     \* ticker: time left until the next tick is offered on C
  waitC,        \* waitUntilExpiryC: NilC or time left until it fires
  ctorResult,   \* what New returned: "none" (not yet), "ok", "err"
  ctorErr,      \* the error New returned
  tasks,        \* goroutines started by `go b.run`
  readerPc,     \* position of each Token() caller
  lastRet,      \* what the latest Token() call has returned (NoRet until it does)
  clock,        \* timing scenario: time since New was called, or NoClock
  genCalls      \* timing scenario: calls of genFunc so far

vars == << conf, token, mu, cancelled, pc, phase, flipTok, flipErr, lastOpErr,
           retries, attemptCalls, nextId, tickLeft, waitC,
           ctorResult, ctorErr, tasks, readerPc, lastRet, clock, genCalls >>

schedVars == << pc, phase, flipTok, flipErr, lastOpErr, retries, attemptCalls,
                tickLeft, waitC, ctorResult, ctorErr, tasks >>
readerVars == << readerPc, lastRet >>
obsVars == << clock, genCalls >>

NoRet == [id |-> 0, err |-> None]

Min(a, b) == IF a < b THEN a ELSE b
Max(a, b) == IF a > b THEN a ELSE b

\* oauth2.Token.Valid as used by Token(): non-nil and not expired.
Valid(t) == t.id # 0 /\ (t.ttl = NoExpiry \/ t.ttl > 0)

\* IsRetryable(err) of the configuration; "nil" is the unset predicate.
IsRetryable(e) == conf.IsRetryable = "always"

\* tickerWithJitter: the ticker's ExponentialBackOff has Multiplier 1, so the
\* time between two ticks is d within +-factor*d (factor in percent).
tickerWithJitter(d, factor) ==
  LET delta == (factor * d) \div 100 IN (d - delta)..(d + delta)

\* (mutant) the timer is set to the expiry itself, without the margin.
handleExpiryAtExpiry(ttl) ==
  IF conf.MarginBeforeExpiry # 0 /\ ttl # NoExpiry
  THEN LET delta == (conf.RandomizationFactorForMarginBeforeExpiry
                       * conf.MarginBeforeExpiry) \div 100
           jitters == (0 - delta)..delta
       IN { Max(0, ttl + j) : j \in jitters }
  ELSE {NilC}

\* run's handleExpiry: the channel that fires at expiry - margin + jitter,
\* or nil without a margin or without an expiry.  The jitter is drawn from
\* [-delta, delta); a timer that is due within a unit fires at the end of
\* that unit, so in whole units the jitter is one of -delta..delta.
handleExpiry(ttl) ==
  IF conf.MarginBeforeExpiry # 0 /\ ttl # NoExpiry
  THEN LET delta == (conf.RandomizationFactorForMarginBeforeExpiry
                       * conf.MarginBeforeExpiry) \div 100
           jitters == (0 - delta)..delta
       IN { Max(0, ttl - conf.MarginBeforeExpiry + j) : j \in jitters }
  ELSE {NilC}

\* The timing scenario: no margin, no jitter, RefreshInterval set, and a
\* generator that always succeeds at once with a token without expiry.  A
\* behaviour of such a configuration is followed with a clock and a count of
\* the genFunc calls for as long as it stays in the scenario.
ScenarioConf(c) ==
  /\ c.MarginBeforeExpiry = 0
  /\ c.RandomizationFactorForRefreshInterval = 0
  /\ c.RefreshInterval # 0

InScenario == clock # NoClock

\* genFunc is called and succeeds.
ObsCall ==
  /\ genCalls' = IF InScenario THEN genCalls + 1 ELSE genCalls
  /\ UNCHANGED clock

\* The generator fails or issues an expiring token: the scenario is left.
ObsLeave ==
  /\ clock' = NoClock
  /\ genCalls' = 0

\* The one-shot token source returns a token with the given Expiry.
ObsToken(life) ==
  IF life = NoExpiry THEN UNCHANGED obsVars ELSE ObsLeave

\* A unit of time passes: in the scenario only while run is blocked in its
\* select, and no longer than ClockCap.
ObsTick ==
  IF InScenario /\ pc = "select" /\ clock < ClockCap
  THEN clock' = clock + 1 /\ UNCHANGED genCalls
  ELSE ObsLeave

Init ==
  /\ conf \in Confs
  /\ token = Nil
  /\ mu = Free
  /\ cancelled = FALSE
  /\ pc = "new"
  /\ phase = "ctor"
  /\ flipTok = Nil
  /\ flipErr = None
  /\ lastOpErr = None
  /\ retries = 0
  /\ attemptCalls = 0
  /\ nextId = 1
  /\ tickLeft = 0
  /\ waitC = NilC
  /\ ctorResult = "none"
  /\ ctorErr = None
  /\ tasks = 0
  /\ readerPc = [r \in Readers |-> "idle"]
  /\ lastRet = NoRet
  /\ clock = IF ScenarioConf(conf) THEN 0 ELSE NoClock
  /\ genCalls = 0

\* -------------------------------------------------------------- flip
\* Entry of flip: `var token`, and backoff.Retry resets the BackOff.
EnterFlip ==
  /\ pc' = "gen"
  /\ flipTok' = Nil
  /\ flipErr' = None
  /\ lastOpErr' = None
  /\ retries' = 0
  /\ attemptCalls' = 0

\* (mutant) Retry reports the first error of the attempt, not the last.
OperationFailedFirstError(e, permanent) ==
  LET first == IF lastOpErr = None THEN e ELSE lastOpErr IN
  /\ lastOpErr' = e
  /\ \/ /\ permanent
        /\ flipErr' = first
        /\ pc' = "lock"
        /\ UNCHANGED retries
     \/ /\ ~permanent
        /\ conf.Backoff # "unbounded"
        /\ flipErr' = first
        /\ pc' = "lock"
        /\ UNCHANGED retries
     \/ /\ ~permanent
        /\ conf.Backoff = "unbounded" \/ retries < RetryBudget
        /\ retries' = Min(retries + 1, CallCap - 1)
        /\ pc' = "gen"
        /\ UNCHANGED flipErr

\* backoff.Retry after the operation returned error e: a Permanent error is
\* unwrapped and returned; otherwise NextBackOff decides between Stop (the
\* last error is returned) and another call of the operation.
OperationFailed(e, permanent) ==
  /\ lastOpErr' = e
  /\ \/ /\ permanent
        /\ flipErr' = e
        /\ pc' = "lock"
        /\ UNCHANGED retries
     \/ /\ ~permanent
        /\ conf.Backoff # "unbounded"
        /\ flipErr' = e
        /\ pc' = "lock"
        /\ UNCHANGED retries
     \/ /\ ~permanent
        /\ conf.Backoff = "unbounded" \/ retries < RetryBudget
        /\ retries' = Min(retries + 1, CallCap - 1)
        /\ pc' = "gen"
        /\ UNCHANGED flipErr

\* (mutant) flip takes the mutex before it fetches, not after.
FlipGenOkLocked ==
  /\ pc = "gen"
  /\ mu = Free
  /\ mu' = Sched
  /\ attemptCalls' = Min(attemptCalls + 1, CallCap)
  /\ pc' = "fetch"
  /\ ObsCall
  /\ UNCHANGED << conf, token, cancelled, phase, flipTok, flipErr, lastOpErr,
                  retries, nextId, tickLeft, waitC, ctorResult, ctorErr,
                  tasks, readerVars >>

\* tokenSource, err := ts.genFunc(ctx) succeeds.
FlipGenOk ==
  /\ pc = "gen"
  /\ attemptCalls' = Min(attemptCalls + 1, CallCap)
  /\ pc' = "fetch"
  /\ ObsCall
  /\ UNCHANGED << conf, token, mu, cancelled, phase, flipTok, flipErr, lastOpErr,
                  retries, nextId, tickLeft, waitC, ctorResult, ctorErr,
                  tasks, readerVars >>

\* ts.genFunc(ctx) fails: `return err`, not wrapped in backoff.Permanent.
FlipGenFail ==
  /\ pc = "gen"
  /\ attemptCalls' = Min(attemptCalls + 1, CallCap)
  /\ OperationFailed(GenErr, FALSE)
  /\ ObsLeave
  /\ UNCHANGED << conf, token, mu, cancelled, phase, flipTok, nextId, tickLeft,
                  waitC, ctorResult, ctorErr, tasks, readerVars >>

\* t, err := tokenSource.Token() succeeds: token = t, Retry returns nil.
FlipFetchOk ==
  /\ pc = "fetch"
  /\ nextId <= MaxTokens
  /\ \E life \in Lifetimes :
       /\ flipTok' = [id |-> nextId, ttl |-> life]
       /\ ObsToken(life)
  /\ nextId' = nextId + 1
  /\ flipErr' = None
  /\ lastOpErr' = None
  /\ pc' = "lock"
  /\ UNCHANGED << conf, token, mu, cancelled, phase, retries, attemptCalls,
                  tickLeft, waitC, ctorResult, ctorErr, tasks,
                  readerVars >>

\* tokenSource.Token() fails: Permanent unless IsRetryable is set and true.
FlipFetchFail ==
  /\ pc = "fetch"
  /\ OperationFailed(FetchErr, conf.IsRetryable = "nil" \/ ~IsRetryable(FetchErr))
  /\ ObsLeave
  /\ UNCHANGED << conf, token, mu, cancelled, phase, flipTok, attemptCalls,
                  nextId, tickLeft, waitC, ctorResult, ctorErr, tasks,
                  readerVars >>

\* ts.mu.Lock()
FlipLock ==
  /\ pc = "lock"
  /\ mu = Free
  /\ mu' = Sched
  /\ pc' = "write"
  /\ UNCHANGED << conf, token, cancelled, phase, flipTok, flipErr, lastOpErr,
                  retries, attemptCalls, nextId, tickLeft, waitC,
                  ctorResult, ctorErr, tasks, readerVars, obsVars >>

\* (mutant) flip returns without ts.mu.Unlock().
FlipWriteKeepsLock ==
  /\ pc = "write"
  /\ token' = flipTok
  /\ pc' = "ret"
  /\ UNCHANGED << conf, mu, cancelled, phase, flipTok, flipErr, lastOpErr,
                  retries, attemptCalls, nextId, tickLeft, waitC, ctorResult,
                  ctorErr, tasks, readerVars, obsVars >>

\* ts.token = token; ts.mu.Unlock()
FlipWrite ==
  /\ pc = "write"
  /\ token' = flipTok
  /\ mu' = Free
  /\ pc' = "ret"
  /\ UNCHANGED << conf, cancelled, phase, flipTok, flipErr, lastOpErr, retries,
                  attemptCalls, nextId, tickLeft, waitC, ctorResult,
                  ctorErr, tasks, readerVars, obsVars >>

\* flip's locals and the state of backoff.Retry are dead once the caller has
\* taken flip's results.
LeaveFlip ==
  /\ flipTok' = Nil
  /\ flipErr' = None
  /\ lastOpErr' = None
  /\ retries' = 0
  /\ attemptCalls' = 0

\* The Expiry flip returns: time.Time{} with an error, else token.Expiry.
FlipExpiry == IF flipErr # None THEN NoExpiry ELSE flipTok.ttl

\* ------------------------------------- NewAsyncRefreshingTokenSource
\* The defaults of conf, then b.flip(ctx).
New ==
  /\ pc = "new"
  /\ conf' = [conf EXCEPT
        !.RefreshInterval = IF @ = 0 THEN defaultInterval ELSE @,
        !.Backoff = IF @ = "nil" THEN "exponential" ELSE @]
  /\ EnterFlip
  /\ UNCHANGED << token, mu, cancelled, phase, nextId, tickLeft, waitC,
                  ctorResult, ctorErr, tasks, readerVars, obsVars >>

\* (mutant) the error of flip is ignored: the goroutine is started anyway.
NewFinishIgnoresError ==
  /\ pc = "ret"
  /\ phase = "ctor"
  /\ ctorResult' = "ok"
  /\ ctorErr' = None
  /\ tasks' = tasks + 1
  /\ phase' = "bg"
  /\ pc' = "run"
  /\ UNCHANGED << conf, token, mu, cancelled, flipTok, flipErr, lastOpErr,
                  retries, attemptCalls, nextId, tickLeft, waitC, readerVars,
                  obsVars >>

\* After flip: return nil, err; or go b.run(ctx, expiry) and return b.
NewFinish ==
  /\ pc = "ret"
  /\ phase = "ctor"
  /\ IF flipErr # None
     THEN /\ ctorResult' = "err"
          /\ ctorErr' = flipErr
          /\ pc' = "failed"
          /\ UNCHANGED << phase, tasks >>
     ELSE /\ ctorResult' = "ok"
          /\ ctorErr' = None
          /\ tasks' = tasks + 1
          /\ phase' = "bg"
          /\ pc' = "run"
  /\ UNCHANGED << conf, token, mu, cancelled, flipTok, flipErr, lastOpErr,
                  retries, attemptCalls, nextId, tickLeft, waitC,
                  readerVars, obsVars >>

\* --------------------------------------------------------------- run
\* run's prologue: the ticker (backoff.NewTicker offers its first tick at
\* once) and handleExpiry(initialExpiry).
RunStart ==
  /\ pc = "run"
  /\ tickLeft' = 0
  /\ waitC' \in handleExpiry(FlipExpiry)
  /\ pc' = "select"
  /\ LeaveFlip
  /\ UNCHANGED << conf, token, mu, cancelled, phase, nextId, ctorResult,
                  ctorErr, tasks, readerVars, obsVars >>

\* case <-ctx.Done(): return (the deferred ticker.Stop() ends the ticker)
SelectDone ==
  /\ pc = "select"
  /\ cancelled
  /\ pc' = "exited"
  /\ tickLeft' = 0
  /\ waitC' = NilC
  /\ UNCHANGED << conf, token, mu, cancelled, phase, flipTok, flipErr, lastOpErr,
                  retries, attemptCalls, nextId, ctorResult, ctorErr, tasks,
                  readerVars, obsVars >>

\* (mutant) a tick starts a refresh although an expiry timer is pending.
SelectTickerNotIgnored ==
  /\ pc = "select"
  /\ tickLeft = 0
  /\ waitC # NilC
  /\ tickLeft' \in tickerWithJitter(conf.RefreshInterval,
                                    conf.RandomizationFactorForRefreshInterval)
  /\ EnterFlip
  /\ UNCHANGED << conf, token, mu, cancelled, phase, nextId, waitC,
                  ctorResult, ctorErr, tasks, readerVars, obsVars >>

\* case <-ticker.C with waitUntilExpiryC != nil: continue loop
SelectTickerIgnored ==
  /\ pc = "select"
  /\ tickLeft = 0
  /\ waitC # NilC
  /\ tickLeft' \in tickerWithJitter(conf.RefreshInterval,
                                     conf.RandomizationFactorForRefreshInterval)
  /\ UNCHANGED << conf, token, mu, cancelled, pc, phase, flipTok, flipErr,
                  lastOpErr, retries, attemptCalls, nextId, waitC,
                  ctorResult, ctorErr, tasks, readerVars, obsVars >>

\* case <-ticker.C with waitUntilExpiryC == nil: ts.flip(ctx)
SelectTicker ==
  /\ pc = "select"
  /\ tickLeft = 0
  /\ waitC = NilC
  /\ tickLeft' \in tickerWithJitter(conf.RefreshInterval,
                                     conf.RandomizationFactorForRefreshInterval)
  /\ EnterFlip
  /\ UNCHANGED << conf, token, mu, cancelled, phase, nextId, waitC,
                  ctorResult, ctorErr, tasks, readerVars, obsVars >>

\* (mutant) the ticker is restarted when the expiry timer starts a refresh.
SelectExpiryRestartsTicker ==
  /\ pc = "select"
  /\ waitC = 0
  /\ tickLeft' \in tickerWithJitter(conf.RefreshInterval,
                                     conf.RandomizationFactorForRefreshInterval)
  /\ EnterFlip
  /\ UNCHANGED << conf, token, mu, cancelled, phase, nextId, waitC,
                  ctorResult, ctorErr, tasks, readerVars, obsVars >>

\* case <-waitUntilExpiryC: ts.flip(ctx)
SelectExpiry ==
  /\ pc = "select"
  /\ waitC = 0
  /\ EnterFlip
  /\ UNCHANGED << conf, token, mu, cancelled, phase, nextId, tickLeft, waitC,
                  ctorResult, ctorErr, tasks, readerVars, obsVars >>

\* (mutant) the error of a background flip ends run, as log.Fatal would.
RunAfterFlipFatal ==
  /\ pc = "ret"
  /\ phase = "bg"
  /\ waitC' \in handleExpiry(FlipExpiry)
  /\ pc' = IF flipErr # None THEN "exited" ELSE "select"
  /\ LeaveFlip
  /\ UNCHANGED << conf, token, mu, cancelled, phase, nextId, tickLeft,
                  ctorResult, ctorErr, tasks, readerVars, obsVars >>

\* After flip in the loop: the error is only logged (log.Println), then
\* waitUntilExpiryC = handleExpiry(expiry).
RunAfterFlip ==
  /\ pc = "ret"
  /\ phase = "bg"
  /\ waitC' \in handleExpiry(FlipExpiry)
  /\ pc' = "select"
  /\ LeaveFlip
  /\ UNCHANGED << conf, token, mu, cancelled, phase, nextId, tickLeft,
                  ctorResult, ctorErr, tasks, readerVars, obsVars >>

\* ------------------------------------------------------------- Token
\* ts.mu.Lock() of a new call of Token() on the source New returned.
TokenLock(r) ==
  /\ ctorResult = "ok"
  /\ readerPc[r] = "idle"
  /\ mu = Free
  /\ mu' = r
  /\ readerPc' = [readerPc EXCEPT ![r] = "check"]
  /\ lastRet' = NoRet
  /\ UNCHANGED << conf, token, cancelled, nextId, schedVars, obsVars >>

\* if ts.token.Valid() { return ts.token, nil }
TokenValid(r) ==
  /\ readerPc[r] = "check"
  /\ Valid(token)
  /\ lastRet' = [id |-> token.id, err |-> None]
  /\ readerPc' = [readerPc EXCEPT ![r] = "idle"]
  /\ mu' = Free
  /\ UNCHANGED << conf, token, cancelled, nextId, schedVars, obsVars >>

\* (mutant) Token() regenerates whatever the validity of the cached token.
TokenInvalidUnchecked(r) ==
  /\ readerPc[r] = "check"
  /\ readerPc' = [readerPc EXCEPT ![r] = "gen"]
  /\ UNCHANGED << conf, token, mu, cancelled, nextId, lastRet, schedVars,
                  obsVars >>

\* the token is nil or expired: go on to ts.genFunc(ts.ctx)
TokenInvalid(r) ==
  /\ readerPc[r] = "check"
  /\ ~Valid(token)
  /\ readerPc' = [readerPc EXCEPT ![r] = "gen"]
  /\ UNCHANGED << conf, token, mu, cancelled, nextId, lastRet, schedVars,
                  obsVars >>

\* tokenSource, err := ts.genFunc(ts.ctx) succeeds.
TokenGenOk(r) ==
  /\ readerPc[r] = "gen"
  /\ readerPc' = [readerPc EXCEPT ![r] = "fetch"]
  /\ ObsCall
  /\ UNCHANGED << conf, token, mu, cancelled, nextId, lastRet, schedVars >>

\* (mutant) Token() clears the cached token when the generator fails.
TokenGenFailClears(r) ==
  /\ readerPc[r] = "gen"
  /\ token' = Nil
  /\ lastRet' = [id |-> 0, err |-> GenErr]
  /\ readerPc' = [readerPc EXCEPT ![r] = "idle"]
  /\ mu' = Free
  /\ ObsLeave
  /\ UNCHANGED << conf, cancelled, nextId, schedVars >>

\* ts.genFunc(ts.ctx) fails: return nil, err (the deferred Unlock runs).
TokenGenFail(r) ==
  /\ readerPc[r] = "gen"
  /\ lastRet' = [id |-> 0, err |-> GenErr]
  /\ readerPc' = [readerPc EXCEPT ![r] = "idle"]
  /\ mu' = Free
  /\ ObsLeave
  /\ UNCHANGED << conf, token, cancelled, nextId, schedVars >>

\* (mutant) Token() returns the fresh token without caching it.
TokenFetchOkNotStored(r) ==
  /\ readerPc[r] = "fetch"
  /\ nextId <= MaxTokens
  /\ nextId' = nextId + 1
  /\ lastRet' = [id |-> nextId, err |-> None]
  /\ readerPc' = [readerPc EXCEPT ![r] = "idle"]
  /\ mu' = Free
  /\ UNCHANGED << conf, token, cancelled, schedVars, obsVars >>

\* token, err := tokenSource.Token() succeeds: ts.token = token; return it.
TokenFetchOk(r) ==
  /\ readerPc[r] = "fetch"
  /\ nextId <= MaxTokens
  /\ \E life \in Lifetimes :
       /\ token' = [id |-> nextId, ttl |-> life]
       /\ ObsToken(life)
  /\ nextId' = nextId + 1
  /\ lastRet' = [id |-> nextId, err |-> None]
  /\ readerPc' = [readerPc EXCEPT ![r] = "idle"]
  /\ mu' = Free
  /\ UNCHANGED << conf, cancelled, schedVars >>

\* (mutant) Token() calls the generator again when the fetch fails.
TokenFetchFailRetries(r) ==
  /\ readerPc[r] = "fetch"
  /\ readerPc' = [readerPc EXCEPT ![r] = "gen"]
  /\ ObsLeave
  /\ UNCHANGED << conf, token, mu, cancelled, nextId, lastRet, schedVars >>

\* tokenSource.Token() fails: return nil, err, without backoff.
TokenFetchFail(r) ==
  /\ readerPc[r] = "fetch"
  /\ lastRet' = [id |-> 0, err |-> FetchErr]
  /\ readerPc' = [readerPc EXCEPT ![r] = "idle"]
  /\ mu' = Free
  /\ ObsLeave
  /\ UNCHANGED << conf, token, cancelled, nextId, schedVars >>

\* ------------------------------------------------------- environment
\* The context given to New is cancelled.
Cancel ==
  /\ ~cancelled
  /\ cancelled' = TRUE
  /\ UNCHANGED << conf, token, mu, nextId, schedVars, readerVars, obsVars >>

\* A channel of run's select is ready.
SelectReady == cancelled \/ tickLeft = 0 \/ waitC = 0

Elapse(n) == IF n > 0 THEN n - 1 ELSE n

\* A goroutine is at a step that neither blocks nor calls the generator.
LocalStepPending ==
  \/ pc \in {"write", "ret", "run"}
  \/ pc = "lock" /\ mu = Free
  \/ pc = "select" /\ SelectReady
  \/ \E r \in Readers : readerPc[r] = "check"

\* One unit of time passes.  Time is spent in the calls of the generator and
\* of the one-shot token source, in backoff sleeps and in blocked goroutines;
\* the steps in between take no time (run's select does not sleep on a
\* ready channel).
Tick ==
  /\ ~LocalStepPending
  /\ tickLeft' = Elapse(tickLeft)
  /\ waitC' = Elapse(waitC)
  /\ token' = [token EXCEPT !.ttl = Elapse(@)]
  /\ flipTok' = [flipTok EXCEPT !.ttl = Elapse(@)]
  /\ ObsTick
  /\ UNCHANGED << conf, mu, cancelled, pc, phase, flipErr, lastOpErr, retries,
                  attemptCalls, nextId, ctorResult, ctorErr, tasks,
                  readerVars >>

SchedStep ==
  \/ New \/ NewFinish
  \/ FlipGenOk \/ FlipGenFail \/ FlipFetchOk \/ FlipFetchFail
  \/ FlipLock \/ FlipWrite
  \/ RunStart \/ SelectDone \/ SelectTickerIgnored \/ SelectTicker
  \/ SelectExpiry \/ RunAfterFlip

\* The steps of a Token() call that has taken the mutex.
TokenBody(r) ==
  \/ TokenValid(r) \/ TokenInvalid(r)
  \/ TokenGenOk(r) \/ TokenGenFail(r)
  \/ TokenFetchOk(r) \/ TokenFetchFail(r)

Next ==
  \/ New \/ NewFinish
  \/ FlipGenOk \/ FlipGenFail \/ FlipFetchOk \/ FlipFetchFail
  \/ FlipLock \/ FlipWrite
  \/ RunStart \/ SelectDone \/ SelectTickerIgnored \/ SelectTicker
  \/ SelectExpiry \/ RunAfterFlip
  \/ \E r \in Readers : TokenLock(r)
  \/ \E r \in Readers : TokenValid(r)
  \/ \E r \in Readers : TokenInvalid(r)
  \/ \E r \in Readers : TokenGenOk(r)
  \/ \E r \in Readers : TokenGenFail(r)
  \/ \E r \in Readers : TokenFetchOk(r)
  \/ \E r \in Readers : TokenFetchFail(r)
  \/ Cancel
  \/ Tick

Spec == Init /\ [][Next]_vars

TypeOK ==
  /\ conf.Backoff \in {"nil", "exponential", "unbounded"}
  /\ token.id \in 0..MaxTokens
  /\ mu \in 0..Sched
  /\ pc \in {"new", "gen", "fetch", "lock", "write", "ret", "failed", "run",
             "select", "exited"}
  /\ retries \in 0..(CallCap - 1)
  /\ attemptCalls \in 0..CallCap
  /\ tasks \in 0..1
  /\ clock \in {NoClock} \cup 0..ClockCap
  /\ genCalls \in 0..(MaxTokens + 1)

\* Fairness of the goroutines: run and flip keep taking steps, every call of
\* the generator returns, Go's select picks a ready case at random (so a
\* closed ctx.Done() is picked eventually), a sync.Mutex does not starve a
\* waiter, and a Token() call that holds the mutex runs to its return.
Fairness ==
  /\ WF_vars(SchedStep)
  /\ SF_vars(SelectDone)
  /\ SF_vars(FlipLock)
  /\ \A r \in Readers : WF_vars(TokenBody(r))

\* Liveness is checked for every retry configuration, without jitter.
FairInit ==
  /\ Init
  /\ conf.RandomizationFactorForRefreshInterval = 0
  /\ conf.RandomizationFactorForMarginBeforeExpiry = 0

FairSpec == FairInit /\ [][Next]_vars /\ Fairness

\* ------------------------------------------------------------ properties
\* Steps, as seen from outside the actions.
FlipWrites == pc = "write" /\ pc' = "ret"
FlipReturnsToRun == pc = "ret" /\ phase = "bg" /\ pc' # "ret"
NewReturns == ctorResult = "none" /\ ctorResult' # "none"
SchedCallsGenFunc == pc = "gen" /\ << pc, attemptCalls >>' # << pc, attemptCalls >>
TokenCallsGenFunc(r) == readerPc[r] = "gen" /\ readerPc'[r] # "gen"
TokenReturns(r) == readerPc[r] # "idle" /\ readerPc'[r] = "idle"

\* C1: a background refresh attempt that fails permanently leaves the cached
\* token unchanged: flip's write at the end of a failed attempt keeps the
\* token that was cached.
C1_FailedRefreshKeepsToken ==
  [][(FlipWrites /\ phase = "bg" /\ flipErr # None) => token'.id = token.id]_vars

\* C2: the cached token is only ever replaced by a token generated later;
\* once a token is cached the cache never goes back to an older token or to
\* no token.
C2_MonotonicReplacement ==
  [][token.id # 0 => token'.id >= token.id]_vars

\* C3: New returns ok exactly if the first flip succeeded, then the fetched
\* token is cached and exactly one goroutine has been started; it returns
\* the error if the first flip failed, and then no goroutine is ever started.
C3_Construction ==
  /\ [](/\ tasks <= 1
        /\ (ctorResult = "ok") <=> (tasks = 1)
        /\ ctorResult = "err" => (pc = "failed" /\ ctorErr # None))
  /\ [][NewReturns =>
          /\ (ctorResult' = "ok") <=> (flipErr = None)
          /\ ctorResult' = "ok" =>
               (token'.id # 0 /\ token' = flipTok /\ tasks' = 1 /\ tasks = 0)
          /\ ctorResult' = "err" => (ctorErr' = flipErr /\ tasks' = 0)]_vars

C3_Witness == ctorResult = "ok" /\ pc = "run" /\ tasks = 1 /\ token.id = 1

\* C4 (as stated): construction makes exactly one generator call before it
\* returns, and returns the error verbatim.
C4_ExactlyOneCall ==
  [][NewReturns =>
       (attemptCalls = 1 /\ (ctorResult' = "err" => ctorErr' = lastOpErr))]_vars

\* C4 (amended): construction makes one refresh attempt before it returns,
\* with one generator call plus one for every retry the Backoff grants; when
\* the attempt fails New returns the error of the attempt's last call.
C4_ConstructionCalls ==
  [][NewReturns =>
       /\ attemptCalls >= 1
       /\ attemptCalls = Min(retries + 1, CallCap)
       /\ ctorResult' = "err" => (ctorErr' = lastOpErr /\ lastOpErr # None)
       /\ ctorResult' = "ok" => lastOpErr = None]_vars

C4_Witness ==
  ctorResult = "err" /\ attemptCalls = 2 /\ ctorErr = FetchErr /\ retries = 1

\* C5 (as stated): no call of Token() ever invokes the generator or the
\* one-shot token source.
C5_TokenNeverGenerates ==
  \A r \in Readers : readerPc[r] \notin {"gen", "fetch"}

\* C5 (amended): Token() returns the cached token without invoking the
\* generator whenever that token is valid; it invokes the generator and the
\* one-shot token source, holding the mutex, only when the cached token is
\* nil or expired.
C5_TokenGeneratesOnlyWhenInvalid ==
  /\ [](\A r \in Readers :
          readerPc[r] \in {"gen", "fetch"} => (~Valid(token) /\ mu = r))
  /\ [][\A r \in Readers :
          (readerPc[r] = "check" /\ Valid(token) /\ readerPc'[r] # "check") =>
            /\ readerPc'[r] = "idle"
            /\ lastRet' = [id |-> token.id, err |-> None]
            /\ token' = token
            /\ nextId' = nextId]_vars

C5_Witness ==
  \E r \in Readers : readerPc[r] = "fetch" /\ token.id # 0 /\ token.ttl = 0

\* C6: after the cancellation signal (of a constructed source) no generator call is made, neither by
\* the background task nor by Token(), and Token() keeps returning the
\* cached token without error.
C6_NoGenerationAfterCancel ==
  [][(cancelled /\ ctorResult = "ok") =>
       /\ ~SchedCallsGenFunc
       /\ \A r \in Readers :
            /\ ~TokenCallsGenFunc(r)
            /\ TokenReturns(r) =>
                 (lastRet'.err = None /\ lastRet'.id = token.id)]_vars

\* C7: once the context is cancelled the background task eventually exits.
C7_RunExitsAfterCancel ==
  (cancelled /\ tasks = 1) ~> (pc = "exited")

\* C8: once the cancellation signal has fired (for a constructed source) the
\* cached token is never written again.
C8_NoWriteAfterCancel ==
  [][(cancelled /\ ctorResult = "ok") => token'.id = token.id]_vars

\* C9: if IsRetryable is unset or always false, a refresh attempt makes
\* exactly one generator call: the first error ends the attempt.
C9_NoRetryWithoutPredicate ==
  (conf.IsRetryable \in {"nil", "never"} /\ pc \in {"lock", "write", "ret"})
     => attemptCalls = 1

\* C10: a failed background refresh does not stop the scheduler: run is back
\* in its select with no expiry timer, so that the next tick starts another
\* attempt, and the write of a successful attempt replaces the cached token.
C10_SchedulerSurvivesFailure ==
  /\ [][(FlipReturnsToRun /\ flipErr # None) =>
          (pc' = "select" /\ waitC' = NilC)]_vars
  /\ [](pc = "select" /\ waitC = NilC /\ tickLeft = 0 => ENABLED SelectTicker)
  /\ [][(pc = "select" /\ waitC = NilC /\ ~cancelled /\ pc' # "select") =>
          pc' = "gen"]_vars
  /\ [][(FlipWrites /\ flipErr = None) =>
          (token' = flipTok /\ token'.id # 0)]_vars

C10_Witness ==
  phase = "bg" /\ pc = "write" /\ flipErr = None /\ token.id = 0
\* A goroutine is inside a call of the generator or of the one-shot source.
SchedGenerates == pc \in {"gen", "fetch"}
TokenGenerates(r) == readerPc[r] \in {"gen", "fetch"}

\* C11 (as stated): no generator invocation and no token fetch is performed
\* while the token mutex is held, neither by flip nor by a Token() call.
C11_NoGenerationUnderMutex ==
  /\ SchedGenerates => mu # Sched
  /\ \A r \in Readers : TokenGenerates(r) => mu # r

\* C11 (amended): flip never holds the mutex while it calls the generator or
\* fetches, so a Token() call never waits for a background refresh in flight;
\* the mutex is held across a generator call or fetch only by a Token() call
\* that found the cached token nil or expired.
C11_OnlyTokenGeneratesUnderMutex ==
  /\ SchedGenerates => mu # Sched
  /\ (SchedGenerates /\ mu = Free /\ ctorResult = "ok") =>
       \A r \in Readers : readerPc[r] = "idle" => ENABLED TokenLock(r)
  /\ \A r \in Readers : TokenGenerates(r) => (mu = r /\ ~Valid(token))

C11_Witness ==
  /\ phase = "bg"
  /\ pc = "fetch"
  /\ \E r \in Readers : readerPc[r] = "check" /\ Valid(token)
\* A background refresh is in flight: run is inside flip, before its write.
RefreshInFlight == phase = "bg" /\ pc \in {"gen", "fetch", "lock"}

\* C12 (as stated): every Token() call that returns during an in-flight
\* background refresh returns the token cached before that refresh or the
\* token the refresh writes, and nothing else.
C12_OldOrNew ==
  [][\A r \in Readers :
       (RefreshInFlight /\ TokenReturns(r)) =>
         /\ lastRet'.err = None
         /\ lastRet'.id # 0
         /\ lastRet'.id \in {token.id, flipTok.id}]_vars

\* C12 (amended): every Token() call returns under the mutex, and a call
\* that returns a token returns the whole token that is cached when it
\* returns: the cached token as it was, or, when that was nil or expired, the
\* token this call has generated and cached itself; the cached token only
\* changes while the mutex is held.
C12_ReturnsCachedToken ==
  /\ [][\A r \in Readers :
          TokenReturns(r) =>
            /\ mu = r /\ mu' = Free
            /\ lastRet'.err = None =>
                 /\ lastRet'.id = token'.id /\ lastRet'.id # 0
                 /\ IF Valid(token) THEN token' = token ELSE lastRet'.id = nextId
            /\ lastRet'.err # None => (lastRet'.id = 0 /\ token' = token)]_vars
  /\ [][token'.id # token.id => (mu # Free /\ mu' = Free)]_vars

\* A caller reads the old token under the mutex while the refresh, its new
\* token in hand, waits for the mutex.
C12_Witness ==
  /\ RefreshInFlight
  /\ pc = "lock" /\ flipTok.id # 0
  /\ \E r \in Readers : readerPc[r] = "check" /\ mu = r /\ Valid(token)
\* C13 (as stated): every assignment to the cached token is made by flip
\* (at construction or in the background task); no Token() call changes it.
C13_SoleWriter ==
  [][token'.id # token.id => FlipWrites]_vars

\* C13 (amended): the cached token is assigned by flip, holding the mutex,
\* or by a Token() call that holds the mutex, found the cached token nil or
\* expired and fetched a fresh token, which it caches and returns; no other
\* step of Token() changes the cached token.
C13_Writers ==
  [][token'.id # token.id =>
       \/ FlipWrites /\ mu = Sched /\ token' = flipTok
       \/ \E r \in Readers :
            /\ readerPc[r] = "fetch" /\ readerPc'[r] = "idle" /\ mu = r
            /\ ~Valid(token)
            /\ token'.id = nextId /\ lastRet' = [id |-> nextId, err |-> None]]_vars

\* Token() has cached and returned a token newer than the one the refresh
\* in flight has fetched.
C13_Witness ==
  /\ pc = "lock" /\ flipTok.id # 0
  /\ token.id > flipTok.id
  /\ lastRet = [id |-> token.id, err |-> None]
\* run takes the results of flip: the prologue of run (initialExpiry) or the
\* end of a loop iteration.
RunTakesExpiry == phase = "bg" /\ pc \in {"run", "ret"} /\ pc' = "select"

MarginNoJitter ==
  /\ conf.MarginBeforeExpiry # 0
  /\ conf.RandomizationFactorForMarginBeforeExpiry = 0

\* C14: with a margin M and jitter factor 0, after a refresh that returned a
\* token with expiry T the expiry timer is set to T - M; while it is pending
\* it counts down undisturbed, a tick of the ticker starts no refresh, and
\* run leaves its select only for the refresh the fired timer triggers (or to
\* exit on cancellation).
C14_ExpiryTimerDecides ==
  /\ [][(RunTakesExpiry /\ MarginNoJitter /\ flipErr = None
           /\ flipTok.ttl # NoExpiry) =>
          waitC' = Max(0, flipTok.ttl - conf.MarginBeforeExpiry)]_vars
  /\ [][(pc = "select" /\ waitC # NilC /\ pc' # "select") =>
          \/ pc' = "gen" /\ waitC = 0
          \/ pc' = "exited" /\ cancelled]_vars
  /\ [][(pc = "select" /\ waitC # NilC /\ pc' = "select") =>
          (waitC' = waitC \/ (waitC > 0 /\ waitC' = waitC - 1))]_vars

\* The ticker fires while the expiry timer is pending.
C14_Witness ==
  pc = "select" /\ MarginNoJitter /\ waitC > 0 /\ tickLeft = 0 /\ ~cancelled
\* C15: when a background refresh attempt fails, scheduling goes on with the
\* previous expiry: the attempt that the expiry timer of the last fetched
\* token triggered leaves run with an expiry timer computed from that
\* expiry, not without one.
C15_KeepsPreviousExpiry ==
  [][(FlipReturnsToRun /\ flipErr # None /\ waitC # NilC) => waitC' # NilC]_vars
\* run is blocked in its select: no channel is ready.
RunWaits == pc = "select" /\ ~SelectReady

\* C16: with RefreshInterval I, no margin, no jitter and a generator that
\* always succeeds with a token without expiry, the generator has been called
\* once at construction and once more for every whole I that has passed
\* since (3 calls after 65s with I = 30s): whenever run waits in its select,
\* genCalls = 1 + clock \div I.
C16_CallsPerInterval ==
  (InScenario /\ RunWaits) => genCalls = 1 + clock \div conf.RefreshInterval
\* The time from one tick of run's ticker to the next.
TickerIntervals ==
  tickerWithJitter(conf.RefreshInterval,
                   conf.RandomizationFactorForRefreshInterval)

\* C17 (as claimed): after every successful background refresh both timers
\* are recomputed: the expiry timer from the new expiry, and the ticker so
\* that its next tick comes one (jittered) RefreshInterval after the refresh.
C17_BothTimersRecomputed ==
  [][(FlipReturnsToRun /\ flipErr = None) =>
        /\ waitC' \in handleExpiry(flipTok.ttl)
        /\ tickLeft' \in TickerIntervals]_vars

\* C17 (amended): after every successful background refresh the expiry timer
\* is recomputed from the new expiry, and the ticker is left as it is: a new
\* interval of the ticker starts only when run receives a tick in its
\* select, so the next tick comes one (jittered) RefreshInterval after the
\* last received tick, not after the refresh.
C17_OnlyExpiryTimerRecomputed ==
  /\ [][(FlipReturnsToRun /\ flipErr = None) =>
          /\ waitC' \in handleExpiry(flipTok.ttl)
          /\ tickLeft' = tickLeft]_vars
  /\ [][tickLeft' > tickLeft =>
          /\ pc = "select" /\ tickLeft = 0
          /\ tickLeft' \in TickerIntervals]_vars

\* A background refresh has succeeded while the ticker is within an interval.
C17_Witness ==
  /\ pc = "ret" /\ phase = "bg" /\ flipErr = None /\ flipTok.id # 0
  /\ conf.RandomizationFactorForRefreshInterval = 0
  /\ tickLeft \notin TickerIntervals
\* The goroutines between ts.mu.Lock() and the matching Unlock: flip at its
\* assignment of ts.token, a Token() call from its check of ts.token to its
\* return.
InCritical ==
  (IF pc = "write" THEN {Sched} ELSE {})
    \cup { r \in Readers : readerPc[r] \in {"check", "gen", "fetch"} }

\* C18: at most one goroutine at a time is in a critical section on the
\* cached token, and it is the holder of the mutex: flip's write and every
\* Token() call's read or write exclude each other, and a goroutine that has
\* left Token() or flip, also with an error, no longer holds the mutex.
C18_MutualExclusion ==
  /\ Cardinality(InCritical) <= 1
  /\ InCritical = (IF mu = Free THEN {} ELSE {mu})

\* flip, on its error path, waits for the mutex that a Token() call holds
\* while it regenerates the token, and another Token() call waits as well.
C18_Witness ==
  /\ pc = "lock" /\ flipErr # None
  /\ \E r \in Readers : mu = r /\ readerPc[r] = "fetch"
  /\ \E r \in Readers : mu # r /\ readerPc[r] = "idle"
\* C19: when Token() finds the cached token not valid and its inline
\* generation fails, it returns that error and no token, leaves the cached
\* token as it was and does not call the generator again: a call leaves its
\* genFunc call for the fetch or for a return of the generator's error, it
\* leaves its fetch for a return, and a return of an error changes nothing
\* but the mutex.
C19_InlineFailurePropagates ==
  [][\A r \in Readers :
       /\ (readerPc[r] = "gen" /\ readerPc'[r] # "gen") =>
            \/ readerPc'[r] = "fetch"
            \/ TokenReturns(r) /\ lastRet' = [id |-> 0, err |-> GenErr]
       /\ (readerPc[r] = "fetch" /\ readerPc'[r] # "fetch") =>
            /\ TokenReturns(r)
            /\ lastRet'.err \in {None, FetchErr}
       /\ (TokenReturns(r) /\ lastRet'.err # None) =>
            /\ ~Valid(token)
            /\ lastRet'.id = 0
            /\ token' = token
            /\ nextId' = nextId
            /\ mu = r /\ mu' = Free]_vars

\* A Token() call has returned the error of the one-shot token source and the
\* expired token is still cached.
C19_Witness ==
  /\ lastRet = [id |-> 0, err |-> FetchErr]
  /\ token.id # 0 /\ ~Valid(token)
  /\ \A r \in Readers : readerPc[r] = "idle"
\* run takes from a successful flip a token whose expiry minus the margin is
\* not in the future.
RunTakesDueExpiry ==
  /\ RunTakesExpiry /\ flipErr = None
  /\ conf.MarginBeforeExpiry # 0
  /\ flipTok.ttl # NoExpiry
  /\ flipTok.ttl - conf.MarginBeforeExpiry <= 0

\* The largest jitter of the expiry timer.
MarginDelta ==
  (conf.RandomizationFactorForMarginBeforeExpiry * conf.MarginBeforeExpiry)
    \div 100

\* C20 (as claimed): with a margin, a successful refresh that returns a token
\* whose expiry minus margin is not in the future leaves the expiry timer
\* due, and the next refresh starts at once.
C20_DueAtOnce ==
  [][(FlipReturnsToRun /\ RunTakesDueExpiry) => waitC' = 0]_vars

\* C20 (amended): the expiry timer is set to expiry - margin + jitter, so
\* after such a refresh it is due at once when the margin has no jitter, and
\* within the jitter otherwise; as soon as the timer is due no time passes
\* in run's select, which leaves for the next refresh attempt (or returns,
\* when the context is cancelled) and until then keeps the timer due.
C20_DueWithinJitter ==
  /\ [][RunTakesDueExpiry =>
          /\ waitC' \in 0..MarginDelta
          /\ MarginNoJitter => waitC' = 0]_vars
  /\ []((pc = "select" /\ waitC = 0) => ~ENABLED Tick)
  /\ [][(pc = "select" /\ waitC = 0) =>
          \/ pc' = "gen" /\ waitC' = 0
          \/ pc' = "exited" /\ cancelled
          \/ pc' = "select" /\ waitC' = 0]_vars

\* After a background refresh whose token is already within the margin, run
\* is in its select with the expiry timer due and no tick pending.
C20_Witness ==
  /\ pc = "select" /\ waitC = 0 /\ tickLeft > 0 /\ ~cancelled
  /\ token.id > 1 /\ token.ttl # NoExpiry
  /\ token.ttl <= conf.MarginBeforeExpiry
  /\ lastRet = NoRet
====
